---- MODULE Spec2Model ----
(***************************************************************************)
(* CustomPlayer of Projects/3_Adversarial Search/my_custom_player.py:      *)
(* the iterative-deepening driver (get_action), the alpha-beta engine      *)
(* (decision, min_value, max_value) and the evaluator (heuristic,          *)
(* liberty), over the Board Model interface the player consumes            *)
(* (actions, result, terminal_test, utility, locs, board).                 *)
(*                                                                         *)
(* A game state is a record                                                *)
(*   [board, locs, term, util, actions, succ]                              *)
(* board   the Python integer state.board, kept as the set of its set bits *)
(* locs    <<locs[0], locs[1]>>, each None (<<>>) or <<cell index>>        *)
(* term    terminal_test()                                                 *)
(* util    utility(0); utility(1) is its negation (zero sum)               *)
(* actions the list state.actions()                                        *)
(* succ    succ[i] is state.result(actions[i])                             *)
(***************************************************************************)
EXTENDS Integers, Sequences, FiniteSets

VARIABLES state, player_id, pc, queue, pubDepth, depth, frame, idx, out

vars == <<state, player_id, pc, queue, pubDepth, depth, frame, idx, out>>

(***************************************************************************)
(* Python values                                                           *)
(***************************************************************************)
\* float("inf"): an integer above every finite score of the model
PosInf == 1000

NegInf == -PosInf

\* None and an optional integer: <<>> or <<i>>
None == <<>>

Some(i) == <<i>>

\* Python truthiness of None or an int: None and 0 are false
Truthy(x) == x # None /\ x[1] # 0

Min(a, b) == IF a < b THEN a ELSE b

Max(a, b) == IF a > b THEN a ELSE b

(***************************************************************************)
(* Board Model (the isolation library the player consumes)                 *)
(***************************************************************************)
Actions(s) == s.actions

Result(s, action) ==
    s.succ[CHOOSE i \in 1..Len(s.actions) : s.actions[i] = action]

TerminalTest(s) == s.term

Utility(s, player) == IF player = 0 THEN s.util ELSE -s.util

\* state.board & (1 << i)
BitSet(board, i) == i \in board

(***************************************************************************)
(* liberty and heuristic                                                   *)
(***************************************************************************)
width == 11

NeighbourhoodSize == 24

S == -width - 2

N == width + 2

W == 1

E == -1

Offsets ==
    << S, N, W, E, N + W, N + E, S + W, S + E,
       2*N + 2*W, 2*N + W, 2*N, 2*N + E, 2*N + 2*E, N + 2*W, N + 2*E,
       2*W, 2*E, S + 2*W, S + 2*E, 2*S + 2*W, 2*S + W, 2*S, 2*S + E,
       2*S + 2*E >>

\* the for loop of liberty: one count per offset of the tuple
CountOpen(board, at) ==
    Cardinality({k \in 1..Len(Offsets) :
                    (Offsets[k] + at) > 0 /\ BitSet(board, Offsets[k] + at)})

\* liberty counting the whole 5 x 5 square for an unplaced player
liberty_WholeSquare(s, player) ==
    IF ~Truthy(s.locs[player + 1]) THEN NeighbourhoodSize + 1
    ELSE CountOpen(s.board, s.locs[player + 1][1])

liberty(s, player) ==
    IF ~Truthy(s.locs[player + 1]) THEN NeighbourhoodSize
    ELSE CountOpen(s.board, s.locs[player + 1][1])

heuristic(s) ==
    LET my_count == liberty(s, player_id)
        oppo_count == liberty(s, 1 - player_id)
    IN my_count - oppo_count

(***************************************************************************)
(* min_value and max_value.  Each returns [v, calls, via]: v is the value  *)
(* the Python function returns, via the return statement it came from      *)
(* ("utility", "heuristic", "cutoff" for the return inside the loop, "end" *)
(* for the one after it) and calls the record of every min_value and       *)
(* max_value call made below and including this one: the window and depth  *)
(* it was entered with, whether its state was terminal, and v and via.     *)
(***************************************************************************)
Call(fn, s, alpha, beta, d, v, via) ==
    [fn |-> fn, term |-> TerminalTest(s), util |-> Utility(s, player_id),
     alpha |-> alpha, beta |-> beta, depth |-> d, ret |-> v, via |-> via]

\* a return of v that made no further call
Return(v, via) == [v |-> v, calls |-> {}, via |-> via]

\* the call fn(s, alpha, beta, d) that came back with r
Called(fn, s, alpha, beta, d, r) ==
    [v |-> r.v, via |-> r.via,
     calls |-> r.calls \cup {Call(fn, s, alpha, beta, d, r.v, r.via)}]

RECURSIVE min_value(_, _, _, _), max_value(_, _, _, _)
RECURSIVE MinLoop(_, _, _, _, _, _, _), MaxLoop(_, _, _, _, _, _, _)
RECURSIVE MinBody(_, _, _, _, _, _, _, _), MaxBody(_, _, _, _, _, _, _, _)

\* min_value's loop without the return of line 78
MinBody_NoCutoff(s, i, v, alpha, beta, d, calls, r) ==
    MinLoop(s, i + 1, Min(v, r.v), alpha, Min(beta, Min(v, r.v)), d,
            calls \cup r.calls)

\* lines 77-79: the body of min_value's loop for the i-th action, whose
\* max_value call came back with r
MinBody(s, i, v, alpha, beta, d, calls, r) ==
    IF Min(v, r.v) <= alpha
    THEN [v |-> Min(v, r.v), calls |-> calls \cup r.calls, via |-> "cutoff"]
    ELSE MinLoop(s, i + 1, Min(v, r.v), alpha, Min(beta, Min(v, r.v)), d,
                 calls \cup r.calls)

\* lines 76-80: the for loop of min_value from its i-th action on
MinLoop(s, i, v, alpha, beta, d, calls) ==
    IF i > Len(Actions(s)) THEN [v |-> v, calls |-> calls, via |-> "end"]
    ELSE MinBody(s, i, v, alpha, beta, d, calls,
                 max_value(Result(s, Actions(s)[i]), alpha, beta, d - 1))

\* max_value's loop with line 90 testing alpha in place of beta
MaxBody_CutsOnAlpha(s, i, v, alpha, beta, d, calls, r) ==
    IF Max(v, r.v) >= alpha
    THEN [v |-> Max(v, r.v), calls |-> calls \cup r.calls, via |-> "cutoff"]
    ELSE MaxLoop(s, i + 1, Max(v, r.v), Max(alpha, Max(v, r.v)), beta, d,
                 calls \cup r.calls)

\* lines 89-91: the body of max_value's loop for the i-th action, whose
\* min_value call came back with r
MaxBody(s, i, v, alpha, beta, d, calls, r) ==
    IF Max(v, r.v) >= beta
    THEN [v |-> Max(v, r.v), calls |-> calls \cup r.calls, via |-> "cutoff"]
    ELSE MaxLoop(s, i + 1, Max(v, r.v), Max(alpha, Max(v, r.v)), beta, d,
                 calls \cup r.calls)

\* lines 88-92: the for loop of max_value from its i-th action on
MaxLoop(s, i, v, alpha, beta, d, calls) ==
    IF i > Len(Actions(s)) THEN [v |-> v, calls |-> calls, via |-> "end"]
    ELSE MaxBody(s, i, v, alpha, beta, d, calls,
                 min_value(Result(s, Actions(s)[i]), alpha, beta, d - 1))

\* min_value with lines 71 and 72 exchanged
min_value_DepthFirst(s, alpha, beta, d) ==
    Called("min_value", s, alpha, beta, d,
           IF d <= 0 THEN Return(heuristic(s), "heuristic")
           ELSE IF TerminalTest(s)
           THEN Return(Utility(s, player_id), "utility")
           ELSE MinLoop(s, 1, PosInf, alpha, beta, d, {}))

\* lines 70-80
min_value(s, alpha, beta, d) ==
    Called("min_value", s, alpha, beta, d,
           IF TerminalTest(s) THEN Return(Utility(s, player_id), "utility")
           ELSE IF d <= 0 THEN Return(heuristic(s), "heuristic")
           ELSE MinLoop(s, 1, PosInf, alpha, beta, d, {}))

\* max_value with lines 83 and 84 exchanged
max_value_DepthFirst(s, alpha, beta, d) ==
    Called("max_value", s, alpha, beta, d,
           IF d <= 0 THEN Return(heuristic(s), "heuristic")
           ELSE IF TerminalTest(s)
           THEN Return(Utility(s, player_id), "utility")
           ELSE MaxLoop(s, 1, NegInf, alpha, beta, d, {}))

\* lines 82-92
max_value(s, alpha, beta, d) ==
    Called("max_value", s, alpha, beta, d,
           IF TerminalTest(s) THEN Return(Utility(s, player_id), "utility")
           ELSE IF d <= 0 THEN Return(heuristic(s), "heuristic")
           ELSE MaxLoop(s, 1, NegInf, alpha, beta, d, {}))

(***************************************************************************)
(* decision.  Its locals are the record                                    *)
(*   [alpha, beta, best_score, best_move, calls]                           *)
(* (calls: the calls made so far, as above).                               *)
(***************************************************************************)
\* lines 58-61
DecisionEnter ==
    [alpha |-> NegInf, beta |-> PosInf, best_score |-> NegInf,
     best_move |-> None, calls |-> {}]

\* lines 64-67: the locals f after `action`, whose min_value call came
\* back with r
DecisionBody(f, action, r) ==
    [alpha |-> Max(f.alpha, r.v),
     beta |-> f.beta,
     best_score |-> IF r.v > f.best_score THEN r.v ELSE f.best_score,
     best_move |-> IF r.v > f.best_score THEN Some(action) ELSE f.best_move,
     calls |-> f.calls \cup r.calls]

\* lines 63-67: one iteration of the for loop, for `action`
DecisionStep(s, d, f, action) ==
    DecisionBody(f, action,
                 min_value(Result(s, action), f.alpha, f.beta, d - 1))

\* line 68
DecisionReturn(s, f) ==
    IF Truthy(f.best_move) THEN f.best_move[1] ELSE Actions(s)[1]

RECURSIVE DecisionLoop(_, _, _, _)
\* line 62: the for loop from the i-th action on
DecisionLoop(s, d, f, i) ==
    IF i > Len(Actions(s)) THEN f
    ELSE DecisionLoop(s, d, DecisionStep(s, d, f, Actions(s)[i]), i + 1)

\* what decision(state, depth) ended with: the move it returns, and its
\* best_score and calls
DecisionEnd(s, d, f) ==
    [depth |-> d, move |-> DecisionReturn(s, f),
     best_score |-> f.best_score, calls |-> f.calls]

\* decision(state, depth), lines 57-68
decision(s, d) == DecisionEnd(s, d, DecisionLoop(s, d, DecisionEnter, 1))

(***************************************************************************)
(* Inputs: boards, placements and game trees                               *)
(***************************************************************************)
\* the empty 11 x 9 board: rows of width + 2 bits, the two high bits of
\* each row are padding and never set
BlankBoard == {i \in 0..(9 * (width + 2) - 3) : i % (width + 2) < width}

Position(board, l0, l1) == [board |-> board, locs |-> <<l0, l1>>]

\* late in a game, ten cells left: player 0 at 28 has all ten in reach,
\* player 1 at 1 has seven
LateBoard == {2, 3, 14, 15, 16, 27, 29, 30, 41, 42}

PosAhead == Position(LateBoard, Some(28), Some(1))

\* the same with the players exchanged
PosBehind == Position(LateBoard, Some(1), Some(28))

\* a state with no legal action: the game is over, utility(0) = u
Leaf(u) ==
    [board |-> PosAhead.board, locs |-> PosAhead.locs, term |-> TRUE,
     util |-> u, actions |-> <<>>, succ |-> <<>>]

\* a state in play: its position, its actions and their results
Inner(pos, acts, kids) ==
    [board |-> pos.board, locs |-> pos.locs, term |-> FALSE, util |-> 0,
     actions |-> acts, succ |-> kids]

\* the states whose game is over: lost or won outright (the library's
\* infinite utilities), and, where the game went its full length, lost or
\* won on points or won outright
Decided == {Leaf(u) : u \in {NegInf, PosInf}}

Ended == {Leaf(u) : u \in {-1, 1, PosInf}}

\* the states whose game ends within one ply, and within two
EndsIn1 ==
    Decided
    \cup {Inner(PosAhead, <<5, 7>>, <<a, b>>) : a \in Ended, b \in Ended}

EndsIn2 ==
    Decided
    \cup {Inner(PosBehind, <<5, 7>>, <<a, b>>) : a \in EndsIn1, b \in EndsIn1}

\* the lists state.actions() of a root: cell indices, with and without 0
RootActions == {<<5, 7>>, <<0, 5>>, <<5, 0>>}

\* the roots decision is applied to: games of at most three plies
Roots ==
    {Inner(PosAhead, acts, <<a, b>>) :
        acts \in RootActions, a \in EndsIn2, b \in EndsIn2}

\* the roots get_action is called on: games of at most two plies, and the
\* states with no action left
DriverRoots ==
    Decided
    \cup {Inner(PosAhead, acts, <<a, b>>) :
            acts \in RootActions, a \in EndsIn1, b \in EndsIn1}

\* the placements liberty and heuristic are applied to
Cells == {None, Some(0), Some(1), Some(28), Some(57), Some(114)}

Boards ==
    {{}, BlankBoard, BlankBoard \ {28, 57}, {14, 29, 55, 56, 58, 83},
     {i \in BlankBoard : i % 2 = 0}}

Placements ==
    {[board |-> bd, locs |-> <<l0, l1>>, term |-> FALSE, util |-> 0,
      actions |-> <<>>, succ |-> <<>>] :
        bd \in Boards, l0 \in Cells, l1 \in Cells}

\* the deepest search the driver is followed to
MaxDepth == 4

NoOut == [depth |-> 0, move |-> 0, best_score |-> 0, calls |-> {}]

(***************************************************************************)
(* decision as a function: any root, any depth                             *)
(***************************************************************************)
InitSearch ==
    /\ state \in Roots
    /\ player_id \in {0, 1}
    /\ pc = "ready"
    /\ queue = <<>>
    /\ pubDepth = <<>>
    /\ depth = 0
    /\ frame = DecisionEnter
    /\ idx = 0
    /\ out = NoOut

Decide ==
    /\ pc = "ready"
    /\ \E d \in 1..MaxDepth : out' = decision(state, d)
    /\ pc' = "decided"
    /\ UNCHANGED <<state, player_id, queue, pubDepth, depth, frame, idx>>

NextSearch == Decide

SpecSearch == InitSearch /\ [][NextSearch]_vars

(***************************************************************************)
(* heuristic and liberty as functions: any placement                       *)
(***************************************************************************)
InitHeuristic ==
    /\ state \in Placements
    /\ player_id \in {0, 1}
    /\ pc = "ready"
    /\ queue = <<>>
    /\ pubDepth = <<>>
    /\ depth = 0
    /\ frame = DecisionEnter
    /\ idx = 0
    /\ out = NoOut

Evaluate ==
    /\ pc = "ready"
    /\ out' = [my_count |-> liberty(state, player_id),
               oppo_count |-> liberty(state, 1 - player_id),
               score |-> heuristic(state)]
    /\ pc' = "evaluated"
    /\ UNCHANGED <<state, player_id, queue, pubDepth, depth, frame, idx>>

NextHeuristic == Evaluate

SpecHeuristic == InitHeuristic /\ [][NextHeuristic]_vars

(***************************************************************************)
(* get_action.  The host interrupts the player on entry to any method of   *)
(* the class (the class docstring, lines 15-19): before get_action has     *)
(* done anything, or inside decision; self.queue.put is no method of the   *)
(* class, so the put and the increment after a decision that returned      *)
(* are one step.  pubDepth records, for each put, the depth of the search  *)
(* its move came from (0: the move of line 51).                            *)
(***************************************************************************)
Init ==
    /\ state \in DriverRoots
    /\ player_id \in {0, 1}
    /\ pc = "get_action"
    /\ queue = <<>>
    /\ pubDepth = <<>>
    /\ depth = 0
    /\ frame = DecisionEnter
    /\ idx = 0
    /\ out = NoOut

\* line 51 on a state with no action: random.choice raises IndexError
ChoiceFails ==
    /\ pc = "get_action"
    /\ Len(Actions(state)) = 0
    /\ pc' = "IndexError"
    /\ UNCHANGED <<state, player_id, queue, pubDepth, depth, frame, idx, out>>

\* lines 51-52, and lines 58-61 of the first decision call
SafetyNet ==
    /\ pc = "get_action"
    /\ \E i \in 1..Len(Actions(state)) :
          queue' = Append(queue, Actions(state)[i])
    /\ pubDepth' = Append(pubDepth, 0)
    /\ depth' = 1
    /\ frame' = DecisionEnter
    /\ idx' = 1
    /\ pc' = "decision"
    /\ UNCHANGED <<state, player_id, out>>

\* decision's loop putting the best move so far after every root action
Iterate_PublishesPartial ==
    /\ pc = "decision"
    /\ depth <= MaxDepth
    /\ idx <= Len(Actions(state))
    /\ frame' = DecisionStep(state, depth, frame, Actions(state)[idx])
    /\ idx' = idx + 1
    /\ queue' = Append(queue, DecisionReturn(state, frame'))
    /\ pubDepth' = Append(pubDepth, depth)
    /\ UNCHANGED <<state, player_id, pc, depth, out>>

\* lines 62-67: one iteration of decision's for loop
Iterate ==
    /\ pc = "decision"
    /\ depth <= MaxDepth
    /\ idx <= Len(Actions(state))
    /\ frame' = DecisionStep(state, depth, frame, Actions(state)[idx])
    /\ idx' = idx + 1
    /\ UNCHANGED <<state, player_id, pc, queue, pubDepth, depth, out>>

\* line 68, lines 54-55, and lines 58-61 of the next decision call
Publish ==
    /\ pc = "decision"
    /\ depth <= MaxDepth
    /\ idx > Len(Actions(state))
    /\ queue' = Append(queue, DecisionReturn(state, frame))
    /\ pubDepth' = Append(pubDepth, depth)
    /\ depth' = depth + 1
    /\ frame' = DecisionEnter
    /\ idx' = 1
    /\ UNCHANGED <<state, player_id, pc, out>>

\* the host's deadline: the call stack is abandoned as it stands (frame and
\* idx keep what the abandoned decision call held), the queue stays
Interrupt ==
    /\ pc \in {"get_action", "decision"}
    /\ pc' = "interrupted"
    /\ UNCHANGED <<state, player_id, queue, pubDepth, depth, frame, idx, out>>

Next == ChoiceFails \/ SafetyNet \/ Iterate \/ Publish \/ Interrupt

Spec == Init /\ [][Next]_vars

(***************************************************************************)
(* Depth-limited minimax without pruning, the reference of C1-C3           *)
(***************************************************************************)
Range(seq) == {seq[i] : i \in 1..Len(seq)}

SetMax(vals) == CHOOSE x \in vals : \A y \in vals : y <= x

SetMin(vals) == CHOOSE x \in vals : \A y \in vals : x <= y

RECURSIVE Minimax(_, _, _)
Minimax(s, d, maximising) ==
    IF TerminalTest(s) THEN Utility(s, player_id)
    ELSE IF d <= 0 THEN heuristic(s)
    ELSE LET vals == {Minimax(s.succ[i], d - 1, ~maximising) :
                         i \in 1..Len(s.succ)}
         IN IF maximising THEN SetMax(vals) ELSE SetMin(vals)

\* the minimax value of the root's i-th action in a search of depth d
ActionValue(s, d, i) == Minimax(s.succ[i], d - 1, FALSE)

BestValue(s, d) == SetMax({ActionValue(s, d, i) : i \in 1..Len(Actions(s))})

\* the first action of the root that has the best value
FirstBest(s, d) ==
    CHOOSE i \in 1..Len(Actions(s)) :
        /\ ActionValue(s, d, i) = BestValue(s, d)
        /\ \A j \in 1..(i - 1) : ActionValue(s, d, j) # BestValue(s, d)

\* the number of plies the longest game from s takes
RECURSIVE GameHeight(_)
GameHeight(s) ==
    IF Len(s.succ) = 0 THEN 0
    ELSE 1 + SetMax({GameHeight(s.succ[i]) : i \in 1..Len(s.succ)})

(***************************************************************************)
(* The claims                                                              *)
(***************************************************************************)
\* C1: the best score decision(state, depth) ends with equals the value of
\* depth-limited minimax without pruning, for every root, depth and player.
C1_PruningEquivalence ==
    pc = "decided" => out.best_score = BestValue(state, out.depth)

\* a search of depth 3 with a cutoff in min_value and one in max_value,
\* ending with a finite score
C1_Witness ==
    /\ pc = "decided"
    /\ out.depth = 3
    /\ \E c \in out.calls : c.fn = "min_value" /\ c.via = "cutoff"
    /\ \E c \in out.calls : c.fn = "max_value" /\ c.via = "cutoff"
    /\ out.best_score \notin {NegInf, PosInf}

\* C2: decision returns a member of state.actions() whose minimax value is
\* the maximum over the root actions whenever some root action scores above
\* -infinity, also when that action is the integer 0 and not the first.
C2_ReturnsBestAction ==
    pc = "decided" =>
        /\ out.move \in Range(Actions(state))
        /\ BestValue(state, out.depth) > NegInf =>
              \E i \in 1..Len(Actions(state)) :
                  /\ Actions(state)[i] = out.move
                  /\ ActionValue(state, out.depth, i)
                        = BestValue(state, out.depth)

C4_PublishOrder ==
    /\ Len(pubDepth) = Len(queue)
    /\ \A i \in 1..Len(queue) :
          /\ pubDepth[i] = i - 1
          /\ IF i = 1 THEN queue[i] \in Range(Actions(state))
             ELSE queue[i] = decision(state, i - 1).move
    /\ pc = "decision" => queue # <<>>
    /\ queue # <<>> => Len(queue) = depth

\* interrupted inside the depth-3 search, after its first root action, when
\* the move that search holds differs from the depth-2 result last put
C4_Witness ==
    /\ pc = "interrupted"
    /\ depth = 3
    /\ idx = 2
    /\ Len(queue) = 3
    /\ frame.best_move # None
    /\ frame.best_move[1] # queue[3]

\* C5: get_action on a state with no action neither crashes nor starts a
\* search.
C5_EmptyActionsHandled ==
    Len(Actions(state)) = 0 => pc \notin {"IndexError", "decision"}

\* C6: every min_value and max_value call on a terminal state returns
\* utility(player_id), at every depth; the heuristic is evaluated only on
\* non-terminal states with depth <= 0.
C6_TerminalPrecedence ==
    pc = "decided" =>
        \A c \in out.calls :
            /\ c.term => c.ret = c.util /\ c.via = "utility"
            /\ c.via = "heuristic" => ~c.term /\ c.depth <= 0

\* a search that met a terminal state above the cutoff in min_value, one
\* at the cutoff in max_value, and evaluated the heuristic beside it
C6_Witness ==
    /\ pc = "decided"
    /\ \E c \in out.calls : c.fn = "min_value" /\ c.term /\ c.depth > 0
    /\ \E c \in out.calls : c.fn = "max_value" /\ c.term /\ c.depth = 0
    /\ \E c \in out.calls : c.via = "heuristic"

\* C7: for a placed player, the cell of index 0 included, liberty is the
\* number of offsets whose target index is positive and whose bit is set;
\* 24 is returned without a scan only for an unplaced player.
C7_LibertyCounts ==
    pc = "evaluated" =>
        /\ out.my_count =
              IF state.locs[player_id + 1] = None THEN NeighbourhoodSize
              ELSE CountOpen(state.board, state.locs[player_id + 1][1])
        /\ out.oppo_count =
              IF state.locs[2 - player_id] = None THEN NeighbourhoodSize
              ELSE CountOpen(state.board, state.locs[2 - player_id][1])

\* C8: heuristic(state) lies in [-24, 24], each liberty in [0, 24], the 24
\* offsets being pairwise distinct.
C8_HeuristicBounded ==
    pc = "evaluated" =>
        /\ out.my_count \in 0..24
        /\ out.oppo_count \in 0..24
        /\ out.score = out.my_count - out.oppo_count
        /\ out.score \in (-24)..24
        /\ Cardinality(Range(Offsets)) = 24

\* the bounds are met: a player with every neighbour open against one with
\* none
C8_Witness ==
    /\ pc = "evaluated"
    /\ out.score \in {-24, 24}
    /\ state.locs[1] # None
    /\ state.locs[2] # None

\* C9: alpha <= beta on entry to every min_value and max_value call of a
\* search started by decision.
C9_WindowInvariant ==
    pc = "decided" => \A c \in out.calls : c.alpha <= c.beta

\* a root action returned the winning utility, alpha was raised to it and
\* the calls under the next root action, down to the cutoff of a depth-3
\* search, were entered with alpha = beta = +infinity
C9_Witness ==
    /\ pc = "decided"
    /\ out.depth = 3
    /\ \E c \in out.calls :
          c.alpha = PosInf /\ c.beta = PosInf /\ c.depth = 0

\* C10: on a root whose game ends within h plies decision returns the same
\* action at every depth >= h, so the moves the run puts stop changing,
\* while the loop itself goes on: after every decision call that returned
\* (here: up to depth MaxDepth) the put and the next call follow.
C10_Stabilises ==
    /\ LET settled == {i \in 1..Len(queue) :
                          pubDepth[i] >= 1 /\ pubDepth[i] >= GameHeight(state)}
       IN \A i, j \in settled : queue[i] = queue[j]
    /\ pc = "decision" /\ depth <= MaxDepth /\ idx > Len(Actions(state))
          => ENABLED Publish

\* a two-ply game searched to MaxDepth: the move changed from depth 1 to
\* depth 2 and not after
C10_Witness ==
    /\ GameHeight(state) = 2
    /\ Len(queue) = MaxDepth + 1
    /\ queue[2] # queue[3]
    /\ queue[3] = queue[MaxDepth + 1]

====
